---- MODULE Spec2Model ----
(***************************************************************************)
(* Model of src/script.js, the accessibility layer of the recipe page.     *)
(*                                                                         *)
(* The script has two parts that share no state except the class list of   *)
(* the document root, on which they touch different class names:           *)
(*   - the DOMContentLoaded handler (lines 6-83) with the functions it     *)
(*     wires: the two preference toggles, the announcement channel and     *)
(*     the restoration of the stored preferences (lines 85-167);           *)
(*   - the top-level watchers (lines 169-224): the debounced resize        *)
(*     listener and the two media-query listeners.                         *)
(* Spec and SpecFaulty run the first part (NextPage), SpecWatch the second *)
(* together with the load and the keyup listener of document (NextWatch).  *)
(* SpecLive is Spec with the fairness of the timers, SpecShared adds a     *)
(* second page on the same localStorage. Time is a relative clock: every   *)
(* pending timer carries the time left until it is due, Tick lets time     *)
(* pass but never past a due timer, and the event loop runs one handler at *)
(* a time.                                                                 *)
(***************************************************************************)
EXTENDS Integers, Sequences, FiniteSets

\* ------------------------------------------------------------- bounds
\* Largest amount of time (ms) one Tick lets pass.
Step == 50
\* Clear timers of the announcement channel that may be pending at once.
MaxPending == 2
\* Images of the document.
NumImages == 2
\* Resize events of one burst.
MaxBurst == 10
\* Change events of each media query.
MaxMediaEvents == 2

\* ------------------------------------------------- program constants
\* setTimeout delay of announceToScreenReader (line 78).
AnnounceDelay == 100
\* wait of the debounced resize listener (line 187).
ResizeWait == 250

\* The two preferences; the name is also the localStorage key.
Prefs == {"highContrast", "largeText"}

\* The class the preference puts on document.documentElement.
Marker(p) == IF p = "highContrast" THEN "high-contrast" ELSE "large-text"

\* The messages the toggles announce.
MsgOn(p) ==
    IF p = "highContrast" THEN "High contrast mode turned on"
    ELSE "Large text mode turned on"

MsgOff(p) ==
    IF p = "highContrast" THEN "High contrast mode turned off"
    ELSE "Large text mode turned off"

\* getAttribute / getItem give null for a missing attribute / key.
Null == "<null>"

\* An <img> without an alt attribute (matches img:not([alt])).
NoAlt == "<no alt>"

\* Values of aria-pressed in the markup of a control.
MarkupPressed == {Null, "true", "false"}

\* Values a key of the store may hold when the page loads.
StoredValues == {Null, "true", "false", "yes"}

\* Values of the alt attribute in the markup.
MarkupAlt == {NoAlt, "", "Pasta on a plate"}

\* localStorage: working, raising on every access (storage disabled), or
\* raising on every write (quota exceeded).
StorageModes == {"ok", "unavailable", "full"}

\* Keys a keydown event may carry.
Keys == {"Enter", " ", "Tab", "a"}

VARIABLES
    status,        \* DOMContentLoaded handler: "pending", "done", or "threw"
    rootClasses,   \* document.documentElement.classList
    dataTheme,     \* data-theme attribute of the document root
    hasBtn,        \* hasBtn[p]: the control of p is in the document
    pressed,       \* pressed[p]: aria-pressed of the control of p
    store,         \* localStorage: store[key], Null when absent
    storageMode,   \* one of StorageModes
    liveText,      \* liveRegion.textContent
    timers,        \* pending clear timers of the channel, oldest first
    alt,           \* alt[i]: alt attribute of image i
    lastToggles,   \* history: the last two activations, [pref, before]
    hasHeader,     \* '.recipe-header .container' is in the document
    hasSkipLink,   \* '.skip-link' is in the document
    wired,         \* preferences whose control has its click and keydown listeners
    kbListener,    \* the keyup listener of line 32 is registered on document
    printAppended, \* the print button is in the document
    liveRegion,    \* the live region is in the document, announce is defined
    skipWired,     \* the skip link has its focus and blur listeners
    otherOpen,     \* a second page of the same origin is loaded
    otherClasses,  \* its document.documentElement.classList
    otherPressed,  \* otherPressed[p]: aria-pressed of its control of p
    reduceMatches, \* mediaQuery.matches
    darkMatches,   \* darkModeQuery.matches
    reduceEvents,  \* history: change events of the reduced-motion query
    darkEvents,    \* history: change events of the color-scheme query
    resizeTimers,  \* pending timers of the debounced resize listener
    sinceResize,   \* clock: time since the last resize event, up to ResizeWait
    burstCalls,    \* history: resize events of the current burst
    burstRuns,     \* history: runs of the resize behaviour in the current burst
    runAge         \* history: sinceResize when the resize behaviour last ran

domVars == <<hasHeader, hasSkipLink, wired, printAppended, liveRegion,
             skipWired>>
otherVars == <<otherOpen, otherClasses, otherPressed>>
pageVars == <<status, rootClasses, hasBtn, pressed, store, storageMode,
              liveText, timers, alt, lastToggles, domVars, kbListener,
              otherVars>>
watchVars == <<dataTheme, reduceMatches, darkMatches, reduceEvents, darkEvents,
               resizeTimers, sinceResize, burstCalls, burstRuns, runAge>>
vars == <<status, rootClasses, dataTheme, hasBtn, pressed, store,
          storageMode, liveText, timers, alt, lastToggles, reduceMatches,
          darkMatches, reduceEvents, darkEvents, resizeTimers, sinceResize,
          burstCalls, burstRuns, runAge, hasHeader, hasSkipLink, wired,
          kbListener, printAppended, liveRegion, skipWired, otherOpen,
          otherClasses, otherPressed>>

Min(a, b) == IF a <= b THEN a ELSE b

\* String(value) of a boolean, as setItem stores it.
ToString(b) == IF b THEN "true" ELSE "false"

\* What the page shows and stores for preference p.
PrefState(p) ==
    [marker |-> Marker(p) \in rootClasses,
     ind    |-> pressed[p],
     stored |-> store[p]]

\* ------------------------------------------------------ initial states
\* The top-level statements have run: the reduced-motion class is added
\* when the query matches (lines 190-193) and data-theme is set from the
\* color-scheme query (line 215). No timer is pending.
InitWatchPart ==
    /\ reduceMatches \in BOOLEAN
    /\ darkMatches \in BOOLEAN
    /\ dataTheme = IF darkMatches THEN "dark" ELSE "light"
    /\ reduceEvents = 0
    /\ darkEvents = 0
    /\ resizeTimers = <<>>
    /\ sinceResize = ResizeWait
    /\ burstCalls = 0
    /\ burstRuns = 0
    /\ runAge = 0

\* The document as parsed, before DOMContentLoaded.
InitPagePart ==
    /\ status = "pending"
    /\ rootClasses = IF reduceMatches THEN {"reduced-motion"} ELSE {}
    /\ hasBtn \in [Prefs -> BOOLEAN]
    /\ pressed \in [Prefs -> MarkupPressed]
    /\ \A p \in Prefs : ~hasBtn[p] => pressed[p] = Null
    /\ store \in [Prefs -> StoredValues]
    /\ storageMode \in StorageModes
    /\ liveText = ""
    /\ timers = <<>>
    /\ alt \in [1..NumImages -> MarkupAlt]
    /\ lastToggles = <<>>
    /\ hasHeader \in BOOLEAN
    /\ hasSkipLink \in BOOLEAN
    /\ wired = {}
    /\ kbListener = FALSE
    /\ printAppended = FALSE
    /\ liveRegion = FALSE
    /\ skipWired = FALSE
    /\ otherOpen = FALSE
    /\ otherClasses = {}
    /\ otherPressed = [p \in Prefs |-> Null]

\* The page the DOM contract describes: both controls and the optional
\* elements present, storage working, any stored values and any markup.
Init ==
    /\ InitWatchPart
    /\ InitPagePart
    /\ ~reduceMatches /\ ~darkMatches
    /\ \A p \in Prefs : hasBtn[p]
    /\ storageMode = "ok"
    /\ hasHeader /\ hasSkipLink

\* ------------------------------------------ announcement channel (73-79)
\* window.announceToScreenReader: set the text, schedule a clear. Nothing
\* cancels an earlier clear. msg and alone are history: the message of the
\* call and whether no earlier clear was pending when it was made.
\* Mutant: the text is set and no clear is scheduled.
announceWithoutClear(message) ==
    /\ liveText' = message
    /\ timers' = timers

\* Mutant: the pending clear is cancelled before the new one is set.
announceCancelling(message) ==
    /\ liveText' = message
    /\ timers' = <<[rem   |-> AnnounceDelay,
                    msg   |-> message,
                    alone |-> timers = <<>>]>>

announceToScreenReader(message) ==
    /\ liveText' = message
    /\ timers' = Append(timers, [rem   |-> AnnounceDelay,
                                 msg   |-> message,
                                 alone |-> timers = <<>>])

\* Mutant: the callback leaves the text in the region.
ClearedTextKept == liveText

\* Line 77: liveRegion.textContent = ''.
ClearedText == ""

\* The timeout callback of line 76-78: the oldest due clear runs.
ClearFire ==
    /\ timers # <<>>
    /\ Head(timers).rem = 0
    /\ liveText' = ClearedText
    /\ timers' = Tail(timers)
    /\ UNCHANGED <<status, rootClasses, hasBtn, pressed, store, storageMode,
                   alt, lastToggles, domVars, kbListener, otherVars>>
    /\ UNCHANGED watchVars

\* ------------------------------------------------- toggles (88-125)
\* Mutant: the direction is read from the store.
IsPressedFromStore(p) == store[p] = "true"

\* Line 90 / 111: the direction is read from the control.
IsPressed(p) == pressed[p] = "true"

\* Mutant: turning a preference on replaces the marker of the other one.
ToggleClassExclusive(classes, p, isPressed) ==
    IF isPressed THEN classes \ {Marker(p)}
    ELSE (classes \ {Marker(q) : q \in Prefs}) \cup {Marker(p)}

\* Lines 93, 97 / 114, 118: remove or add the marker class.
ToggleClass(classes, p, isPressed) ==
    IF isPressed THEN classes \ {Marker(p)} ELSE classes \cup {Marker(p)}

\* Lines 94, 98 / 115, 119: the new aria-pressed.
NewPressed(isPressed) == IF isPressed THEN "false" ELSE "true"

\* Mutant: the messages of the other preference, as a copy of the
\* function left unedited would announce.
ToggleMessageOfOther(p, isPressed) ==
    LET q == CHOOSE r \in Prefs : r # p
    IN  IF isPressed THEN MsgOff(q) ELSE MsgOn(q)

\* Mutant: the two messages swapped.
ToggleMessageSwapped(p, isPressed) == IF isPressed THEN MsgOn(p) ELSE MsgOff(p)

\* Lines 95, 99 / 116, 120: the message announced.
ToggleMessage(p, isPressed) == IF isPressed THEN MsgOff(p) ELSE MsgOn(p)

\* Mutant: a preference turned off is removed from the store.
setItemOrRemove(st, key, value) ==
    IF storageMode = "ok"
    THEN [st EXCEPT ![key] = IF value THEN "true" ELSE Null]
    ELSE st

\* localStorage.setItem(key, value): the value is stored as a string; the
\* call raises, and stores nothing, unless the storage works.
setItem(st, key, value) ==
    IF storageMode = "ok" THEN [st EXCEPT ![key] = ToString(value)] ELSE st

\* Mutant: the negation forgotten.
SavedValueNotNegated(isPressed) == isPressed

\* Line 103 / 124: the preference saved is the negation of isPressed.
SavedValue(isPressed) == ~isPressed

LastTwo(s) == IF Len(s) <= 2 THEN s ELSE SubSeq(s, Len(s) - 1, Len(s))

\* toggleHighContrast / toggleFontSize, for preference p. The listeners
\* exist once the DOMContentLoaded handler has passed lines 8-29, which it
\* has even when initAccessibilityFeatures threw at its end.
Toggle(p) ==
    /\ status # "pending"
    /\ hasBtn[p]
    /\ p \in wired
    /\ liveRegion
    /\ Len(timers) < MaxPending
    /\ LET isPressed == IsPressed(p) IN
        /\ rootClasses' = ToggleClass(rootClasses, p, isPressed)
        /\ pressed' = [pressed EXCEPT ![p] = NewPressed(isPressed)]
        /\ announceToScreenReader(ToggleMessage(p, isPressed))
        /\ store' = setItem(store, p, SavedValue(isPressed))
    /\ lastToggles' = LastTwo(Append(lastToggles,
                                     [pref |-> p, before |-> PrefState(p)]))
    /\ UNCHANGED <<status, hasBtn, storageMode, alt, domVars, kbListener,
                   otherVars>>
    /\ UNCHANGED watchVars

toggleHighContrast == Toggle("highContrast")

toggleFontSize == Toggle("largeText")

\* The click listeners of lines 10 and 22.
Click ==
    \/ toggleHighContrast
    \/ toggleFontSize

\* Mutant: the key is not looked at.
AnyKeyActivates(key) == TRUE

\* Lines 12 and 24: e.key === 'Enter' || e.key === ' '.
IsActivationKey(key) == key = "Enter" \/ key = " "

\* The keydown listeners of lines 11-16 and 23-28. preventDefault (lines 13
\* and 25) keeps the browser from adding a click of its own to the key.
KeyDown(p, key) ==
    IF IsActivationKey(key)
    THEN Toggle(p)
    ELSE /\ status # "pending"
         /\ hasBtn[p]
         /\ p \in wired
         /\ UNCHANGED vars

\* ------------------------------------ restoration at load (130-159)
\* Mutant: the indicator is set only when the control exists.
RestoreGuarded(p, st) ==
    IF st.threw THEN st
    ELSE IF storageMode = "unavailable" THEN [st EXCEPT !.threw = TRUE]
    ELSE IF store[p] = "true"
         THEN [classes |-> st.classes \cup {Marker(p)},
               pressed |-> IF hasBtn[p]
                           THEN [st.pressed EXCEPT ![p] = "true"]
                           ELSE st.pressed,
               threw   |-> FALSE]
         ELSE st

\* One of the two blocks of lines 132-140, on the state st so far:
\* getItem raises when the storage is unavailable, setAttribute on the
\* null of a missing control raises after the class was added.
Restore(p, st) ==
    IF st.threw THEN st
    ELSE IF storageMode = "unavailable" THEN [st EXCEPT !.threw = TRUE]
    ELSE IF store[p] = "true"
         THEN IF hasBtn[p]
              THEN [classes |-> st.classes \cup {Marker(p)},
                    pressed |-> [st.pressed EXCEPT ![p] = "true"],
                    threw   |-> FALSE]
              ELSE [st EXCEPT !.classes = @ \cup {Marker(p)},
                              !.threw = TRUE]
         ELSE st

\* Mutant: the listeners of the skip link added without the guard of
\* line 147, so that a document without one raises there.
initWithoutSkipGuard ==
    LET s0 == [classes |-> rootClasses, pressed |-> pressed, threw |-> FALSE]
        s1 == Restore("highContrast", s0)
        s2 == Restore("largeText", s1)
    IN  IF s2.threw
        THEN [classes |-> s2.classes, pressed |-> s2.pressed,
              threw |-> TRUE, skip |-> FALSE]
        ELSE [classes |-> s2.classes \cup {"js-focus-visible"},
              pressed |-> s2.pressed, threw |-> ~hasSkipLink,
              skip |-> hasSkipLink]

\* initAccessibilityFeatures: both restorations, then js-focus-visible
\* (line 143) and the listeners of the skip link when there is one (lines
\* 146-155), unless an exception ended it before.
initAccessibilityFeatures ==
    LET s0 == [classes |-> rootClasses, pressed |-> pressed, threw |-> FALSE]
        s1 == Restore("highContrast", s0)
        s2 == Restore("largeText", s1)
    IN  IF s2.threw
        THEN [classes |-> s2.classes, pressed |-> s2.pressed,
              threw |-> TRUE, skip |-> FALSE]
        ELSE [classes |-> s2.classes \cup {"js-focus-visible"},
              pressed |-> s2.pressed, threw |-> FALSE, skip |-> hasSkipLink]

\* Mutant: an empty alt is taken for a missing one.
BackfillEmptyToo(a) == IF a = NoAlt \/ a = "" THEN "Decorative image" ELSE a

\* Lines 40-42: an image without alt gets the default description.
BackfillAlt(a) == IF a = NoAlt THEN "Decorative image" ELSE a

\* Lines 8-29: the controls that are in the document get their listeners.
WireControls == {p \in Prefs : hasBtn[p]}

\* Lines 52-55: the print button is appended when its container exists.
AppendPrintButton == hasHeader

\* The DOMContentLoaded handler: listeners of the controls, keyup listener,
\* alt backfill, print button, live region, then initAccessibilityFeatures
\* as its last statement (line 82). The tabindex pass of lines 58-63 has no
\* effect on the state modelled.
Load ==
    /\ status = "pending"
    /\ wired' = WireControls
    /\ kbListener' = TRUE
    /\ alt' = [i \in DOMAIN alt |-> BackfillAlt(alt[i])]
    /\ printAppended' = AppendPrintButton
    /\ liveRegion' = TRUE
    /\ liveText' = ""
    /\ LET r == initAccessibilityFeatures IN
        /\ rootClasses' = r.classes
        /\ pressed' = r.pressed
        /\ skipWired' = r.skip
        /\ status' = IF r.threw THEN "threw" ELSE "done"
    /\ UNCHANGED <<hasBtn, store, storageMode, timers, lastToggles,
                   hasHeader, hasSkipLink, otherVars>>
    /\ UNCHANGED watchVars

\* ------------------------------------------------------------- time
Rems ==
    {timers[i].rem : i \in DOMAIN timers}
        \cup {resizeTimers[i] : i \in DOMAIN resizeTimers}

\* The time that may pass now: up to Step, never past the next due timer.
Elapse ==
    IF Rems = {} THEN Step
    ELSE Min(Step, CHOOSE m \in Rems : \A n \in Rems : m <= n)

\* Time passes; no timer is due.
Tick ==
    /\ Rems # {} \/ sinceResize < ResizeWait
    /\ Elapse > 0
    /\ timers' = [i \in DOMAIN timers |->
                    [timers[i] EXCEPT !.rem = @ - Elapse]]
    /\ resizeTimers' = [i \in DOMAIN resizeTimers |-> resizeTimers[i] - Elapse]
    /\ sinceResize' = Min(sinceResize + Elapse, ResizeWait)
    /\ UNCHANGED <<status, rootClasses, dataTheme, hasBtn, pressed, store,
                   storageMode, liveText, alt, lastToggles, reduceMatches,
                   darkMatches, reduceEvents, darkEvents, burstCalls,
                   burstRuns, runAge, domVars, kbListener, otherVars>>

\* --------------------------------------- debounced resize (172-187)
\* clearTimeout(timeout): timeout names the timer the closure set last;
\* it is cancelled when still pending.
clearTimeout(ts) == IF ts = <<>> THEN ts ELSE SubSeq(ts, 1, Len(ts) - 1)

\* Mutant: the pending timer is not cancelled.
debounceWithoutCancel(ts, wait) == Append(ts, wait)

\* The function debounce returns: cancel the pending timer, set a new one.
debounce(ts, wait) == Append(clearTimeout(ts), wait)

\* A resize event either continues the burst (it comes less than
\* ResizeWait after the one before) or starts a new one.
NewBurst == burstCalls = 0 \/ sinceResize >= ResizeWait

\* The resize listener of line 185.
Resize ==
    /\ NewBurst \/ burstCalls < MaxBurst
    /\ resizeTimers' = debounce(resizeTimers, ResizeWait)
    /\ sinceResize' = 0
    /\ burstCalls' = IF NewBurst THEN 1 ELSE burstCalls + 1
    /\ burstRuns' = IF NewBurst THEN 0 ELSE burstRuns
    /\ UNCHANGED <<dataTheme, reduceMatches, darkMatches, reduceEvents,
                   darkEvents, runAge>>
    /\ UNCHANGED pageVars

\* The timeout callback of lines 178-180: func (the resize behaviour,
\* empty in line 186) runs.
DebounceFire ==
    /\ resizeTimers # <<>>
    /\ Head(resizeTimers) = 0
    /\ resizeTimers' = Tail(resizeTimers)
    /\ burstRuns' = burstRuns + 1
    /\ runAge' = sinceResize
    /\ UNCHANGED <<dataTheme, reduceMatches, darkMatches, reduceEvents,
                   darkEvents, sinceResize, burstCalls>>
    /\ UNCHANGED pageVars

\* ------------------------------------------- media watchers (190-215)
\* Mutant: the class is added and never removed.
ReducedMotionAddOnly(classes, matches) ==
    IF matches THEN classes \cup {"reduced-motion"} ELSE classes

\* The change listener of lines 195-201, reading mediaQuery.matches.
ReducedMotionListener(classes, matches) ==
    IF matches THEN classes \cup {"reduced-motion"}
    ELSE classes \ {"reduced-motion"}

\* Mutant: the attribute is only ever set to "dark".
updateDarkModeOnly(matches) == "dark"

\* updateDarkMode(e), lines 206-212: the new data-theme.
updateDarkMode(matches) == IF matches THEN "dark" ELSE "light"

\* The system preference changes and the browser dispatches the change
\* event of (prefers-reduced-motion: reduce).
ReduceChange ==
    /\ reduceEvents < MaxMediaEvents
    /\ reduceMatches' = ~reduceMatches
    /\ rootClasses' = ReducedMotionListener(rootClasses, reduceMatches')
    /\ reduceEvents' = reduceEvents + 1
    /\ UNCHANGED <<status, hasBtn, pressed, store, storageMode, liveText,
                   timers, alt, lastToggles, domVars, kbListener, otherVars>>
    /\ UNCHANGED <<dataTheme, darkMatches, darkEvents, resizeTimers,
                   sinceResize, burstCalls, burstRuns, runAge>>

\* The same for (prefers-color-scheme: dark).
DarkChange ==
    /\ darkEvents < MaxMediaEvents
    /\ darkMatches' = ~darkMatches
    /\ dataTheme' = updateDarkMode(darkMatches')
    /\ darkEvents' = darkEvents + 1
    /\ UNCHANGED <<reduceMatches, reduceEvents, resizeTimers, sinceResize,
                   burstCalls, burstRuns, runAge>>
    /\ UNCHANGED pageVars

\* ------------------------------------- keyboard-mode detection (32-37)
\* Mutant: the listener never removes itself.
KeyupListenerKept(key) == TRUE

\* Line 35: the listener stays registered unless the key is Tab.
KeyupListenerStays(key) == key # "Tab"

\* Line 34: Tab marks the document as navigated by keyboard.
KeyupClasses(classes, key) ==
    IF key = "Tab" THEN classes \cup {"keyboard-navigation"} ELSE classes

\* A keyup reaches document while the listener is registered. In this
\* classic, non-strict script arguments.callee is the listener itself.
KeyUp(key) ==
    /\ kbListener
    /\ rootClasses' = KeyupClasses(rootClasses, key)
    /\ kbListener' = KeyupListenerStays(key)
    /\ UNCHANGED <<status, hasBtn, pressed, store, storageMode, liveText,
                   timers, alt, lastToggles, domVars, otherVars>>
    /\ UNCHANGED watchVars

\* ------------------------------------- a second page on the same store
\* The same script in a second page of the same origin: its own document
\* and DOM, the same localStorage. Its markers and indicators are kept,
\* its live region is its own and is left out.
OtherMarkup == [p \in Prefs |-> "false"]

\* The second page is opened or reloaded: lines 130-143 on a fresh DOM.
LoadOther ==
    /\ status # "pending"
    /\ LET s0 == [classes |-> {}, pressed |-> OtherMarkup, threw |-> FALSE]
           s2 == Restore("largeText", Restore("highContrast", s0))
       IN  /\ otherClasses' = IF s2.threw THEN s2.classes
                              ELSE s2.classes \cup {"js-focus-visible"}
           /\ otherPressed' = s2.pressed
    /\ otherOpen' = TRUE
    /\ UNCHANGED <<status, rootClasses, hasBtn, pressed, store, storageMode,
                   liveText, timers, alt, lastToggles, domVars, kbListener>>
    /\ UNCHANGED watchVars

\* Lines 88-125 run in the second page.
ToggleOther(p) ==
    /\ otherOpen
    /\ hasBtn[p]
    /\ LET isPressed == otherPressed[p] = "true" IN
        /\ otherClasses' = ToggleClass(otherClasses, p, isPressed)
        /\ otherPressed' = [otherPressed EXCEPT ![p] = NewPressed(isPressed)]
        /\ store' = setItem(store, p, SavedValue(isPressed))
    /\ UNCHANGED <<status, rootClasses, hasBtn, pressed, storageMode,
                   liveText, timers, alt, lastToggles, domVars, kbListener,
                   otherOpen>>
    /\ UNCHANGED watchVars

\* ------------------------------------------------------ specifications
NextPage ==
    \/ Load
    \/ Click
    \/ \E p \in Prefs, key \in Keys : KeyDown(p, key)
    \/ ClearFire
    \/ Tick

NextWatch ==
    \/ Load
    \/ Resize
    \/ DebounceFire
    \/ ReduceChange
    \/ DarkChange
    \/ \E key \in Keys : KeyUp(key)
    \/ Tick

NextShared ==
    \/ NextPage
    \/ LoadOther
    \/ \E p \in Prefs : ToggleOther(p)

Next == NextPage \/ NextWatch \/ NextShared

\* The page of the DOM contract, loaded and used.
Spec == Init /\ [][NextPage]_vars

\* A document or a storage that breaks the contract: a control may be
\* missing, the storage may raise. The optional elements are present and
\* the markup leaves the controls unpressed.
InitFaulty ==
    /\ InitWatchPart
    /\ InitPagePart
    /\ ~reduceMatches /\ ~darkMatches
    /\ hasHeader /\ hasSkipLink
    /\ \A p \in Prefs : pressed[p] \in {Null, "false"}
    /\ \A p \in Prefs : store[p] \in {Null, "true"}

SpecFaulty == InitFaulty /\ [][NextPage]_vars

\* The watchers of the top level, which listen from the moment the script
\* has run, before and after the load of a document with unpressed
\* controls whose preferences are stored as on or not at all, with or
\* without its optional elements.
InitWatch ==
    /\ InitWatchPart
    /\ InitPagePart
    /\ \A p \in Prefs : hasBtn[p] /\ pressed[p] = "false"
    /\ \A p \in Prefs : store[p] \in {Null, "true"}
    /\ storageMode = "ok"
    /\ \A i \in DOMAIN alt : alt[i] = NoAlt

SpecWatch == InitWatch /\ [][NextWatch]_vars

\* Two pages on one store: the document of the contract with unpressed
\* controls, and a second page of it opened, used and reloaded.
InitShared ==
    /\ Init
    /\ \A p \in Prefs : pressed[p] = "false" /\ store[p] \in {Null, "true"}
    /\ \A i \in DOMAIN alt : alt[i] = NoAlt

SpecShared == InitShared /\ [][NextShared]_vars

\* The page of the contract under the scheduling of a browser: a timer
\* that is due runs, and time passes while a timer is waiting.
SpecLive == Spec /\ WF_vars(ClearFire) /\ WF_vars(Tick)

\* ------------------------------------------------------------ claims
\* The DOMContentLoaded handler has run (to its end or to an exception).
Loaded == status # "pending"

\* The last two activations were of the same control.
TwiceInARow ==
    /\ Len(lastToggles) = 2
    /\ lastToggles[1].pref = lastToggles[2].pref

\* C1: after restoration and after every toggle, for each preference the
\* marker class is on the root iff aria-pressed is "true" iff the stored
\* value is "true".
C1_MarkerIndicatorStoreAgree ==
    Loaded =>
        \A p \in Prefs :
            /\ (Marker(p) \in rootClasses) <=> (pressed[p] = "true")
            /\ (pressed[p] = "true") <=> (store[p] = "true")

\* C2: right after restoration (no control activated yet), marker and
\* indicator are ON when the stored value is exactly "true" and OFF for
\* every other stored value, the absent key included.
C2_RestoredFromStore ==
    (Loaded /\ lastToggles = <<>>) =>
        \A p \in Prefs :
            IF store[p] = "true"
            THEN Marker(p) \in rootClasses /\ pressed[p] = "true"
            ELSE Marker(p) \notin rootClasses /\ pressed[p] # "true"

\* C3 as stated: two activations of one control in a row bring marker,
\* indicator and stored value back to exactly the values before the first.
C3_TwiceRestoresExactly ==
    TwiceInARow =>
        PrefState(lastToggles[1].pref) = lastToggles[1].before

\* The state in which marker, indicator and store say the same in the
\* strings the toggles write.
Canonical(s) ==
    /\ s.ind \in {"true", "false"}
    /\ s.marker = (s.ind = "true")
    /\ s.stored = s.ind

\* C3 amended: two activations of one control in a row bring back the
\* pressed reading of the indicator, and leave the marker present iff the
\* control read pressed before the first, the indicator and the stored value
\* the string "true" or "false" of that reading; these are the values before
\* the first activation exactly when that state was canonical.
C3_TwiceRestoresReading ==
    TwiceInARow =>
        LET p == lastToggles[1].pref
            b == lastToggles[1].before
            on == (b.ind = "true")
        IN  /\ PrefState(p) = [marker |-> on,
                               ind    |-> ToString(on),
                               stored |-> ToString(on)]
            /\ Canonical(b) <=> (PrefState(p) = b)

\* C3 witness: two activations right after a load that found the key
\* absent; the key now holds "false".
C3_Witness ==
    /\ TwiceInARow
    /\ lastToggles[1].before.stored = Null
    /\ store[lastToggles[1].pref] = "false"
    /\ Marker(lastToggles[1].pref) \notin rootClasses

\* C4: an activation of the high-contrast control while it does not read
\* pressed leaves the high-contrast class on the root, aria-pressed "true",
\* the key highContrast holding "true" and the channel showing the
\* turned-on message.
C4_ActivateWhenOff ==
    [][(toggleHighContrast /\ pressed["highContrast"] # "true") =>
            /\ "high-contrast" \in rootClasses'
            /\ pressed'["highContrast"] = "true"
            /\ store'["highContrast"] = "true"
            /\ liveText' = "High contrast mode turned on"]_vars

\* C4 witness: the state right after such an activation.
C4_Witness ==
    /\ lastToggles # <<>>
    /\ lastToggles[Len(lastToggles)].pref = "highContrast"
    /\ lastToggles[Len(lastToggles)].before.ind # "true"
    /\ lastToggles[Len(lastToggles)].before.marker = FALSE
    /\ "high-contrast" \in rootClasses
    /\ pressed["highContrast"] = "true"
    /\ store["highContrast"] = "true"
    /\ liveText = "High contrast mode turned on"
    /\ timers[Len(timers)].rem = AnnounceDelay

\* The clear timer of the last announce call, while it is pending.
Newest == timers[Len(timers)]

\* C5 as stated: while the delay of the last announce call has not elapsed
\* (its clear has time left) the channel shows its message, and once it has
\* elapsed and its clear has run the channel is empty. No call follows the
\* last one, so none comes in between.
C5_ShownForFullDelay ==
    /\ (timers # <<>> /\ Newest.rem > 0) => liveText = Newest.msg
    /\ (Loaded /\ timers = <<>>) => liveText = ""

\* C5 amended: every announce call sets the channel to its message at once;
\* a call made while no clear of an earlier call is pending keeps the
\* channel at its message until its delay has elapsed; and once the delay
\* of the last call has elapsed the channel is empty.
C5_ShownWhenAlone ==
    /\ [](/\ (timers # <<>> /\ Newest.alone) => liveText = Newest.msg
          /\ (Loaded /\ timers = <<>>) => liveText = "")
    /\ [][(\E p \in Prefs : Toggle(p)) =>
             /\ liveText' = ToggleMessage(lastToggles'[Len(lastToggles')].pref,
                                          lastToggles'[Len(lastToggles')].before.ind = "true")
             /\ liveText' # ""]_vars

\* C5 witness: part of the delay of a call made alone has passed and the
\* channel still shows its message.
C5_Witness ==
    /\ timers # <<>>
    /\ Newest.alone
    /\ Newest.rem > 0
    /\ Newest.rem < AnnounceDelay
    /\ liveText = Newest.msg
    /\ liveText # ""

\* C6: an announce call cancels no pending clear and leaves its time
\* unchanged, and the clear that runs is the oldest one, when it is due, and
\* it empties the channel whatever message is shown.
C6_EarlierClearStillFires ==
    [][/\ (\E p \in Prefs : Toggle(p)) =>
            /\ Len(timers') = Len(timers) + 1
            /\ SubSeq(timers', 1, Len(timers)) = timers
            /\ timers'[Len(timers')].rem = AnnounceDelay
       /\ Len(timers') < Len(timers) =>
            /\ timers[1].rem = 0
            /\ timers' = Tail(timers)
            /\ liveText' = ""]_vars

\* C6 witness: the channel is empty although the clear of the last call,
\* made while an earlier clear was pending, still has time to run: the
\* newer message was removed before its delay was over.
C6_Witness ==
    /\ timers # <<>>
    /\ ~Newest.alone
    /\ Newest.rem > 0
    /\ Newest.rem < AnnounceDelay
    /\ liveText = ""

\* C7: in a burst of resize events the resize behaviour runs at most once,
\* the run comes ResizeWait after the last event of the burst, and a
\* pending timer is always the one of the last event.
C7_DebounceOncePerBurst ==
    /\ burstRuns <= 1
    /\ burstRuns = 1 => (runAge = ResizeWait /\ resizeTimers = <<>>)
    /\ resizeTimers # <<>> =>
           /\ Len(resizeTimers) = 1
           /\ resizeTimers[1] = ResizeWait - sinceResize
           /\ burstRuns = 0

\* C7 witness: a burst of 10 events and more, and its one run.
C7_Witness ==
    /\ burstCalls >= 10
    /\ burstRuns = 1
    /\ runAge = ResizeWait
    /\ resizeTimers = <<>>

\* C8: at load and after every change event the root carries the
\* reduced-motion class iff the query matches.
C8_ReducedMotionFollowsQuery ==
    ("reduced-motion" \in rootClasses) <=> reduceMatches

\* C8 witness: the preference went to reduce and back on the loaded page,
\* and the class is gone again.
C8_Witness ==
    /\ Loaded
    /\ "js-focus-visible" \in rootClasses
    /\ reduceEvents = 2
    /\ ~reduceMatches
    /\ "reduced-motion" \notin rootClasses

\* C9: the load gives every image without alt the description 'Decorative
\* image' and leaves every other alt, the empty one included, as it was;
\* nothing changes an alt afterwards.
C9_AltBackfilled ==
    [][/\ (status = "pending" /\ status' # "pending") =>
            \A i \in DOMAIN alt :
                alt'[i] = IF alt[i] = NoAlt THEN "Decorative image" ELSE alt[i]
       /\ status # "pending" => alt' = alt]_vars

\* C9 witness: a loaded document with a backfilled image and an image that
\* kept its empty alt.
C9_Witness ==
    /\ status = "done"
    /\ \E i, j \in DOMAIN alt : alt[i] = "Decorative image" /\ alt[j] = ""

\* C10: with a storage that raises, the load still runs to its end (the
\* handler does not throw and js-focus-visible is set), and every activation
\* has flipped marker and indicator and announced.
C10_StorageFailureNotFatal ==
    (storageMode # "ok" /\ Loaded /\ \A p \in Prefs : hasBtn[p]) =>
        /\ status = "done"
        /\ "js-focus-visible" \in rootClasses
        /\ lastToggles # <<>> =>
              LET e == lastToggles[Len(lastToggles)]
                  wasOn == e.before.ind = "true"
              IN  /\ (Marker(e.pref) \in rootClasses) = ~wasOn
                  /\ pressed[e.pref] = ToString(~wasOn)
                  /\ timers # <<>>
                  /\ Newest.msg = IF wasOn THEN MsgOff(e.pref) ELSE MsgOn(e.pref)

\* C11: a document without the container of the print button, or without
\* a skip link, loads without an exception and only loses that feature:
\* the print button is in the document exactly when its container is, the
\* skip link has its listeners exactly when it exists, and the controls
\* have their listeners, the preferences stored as "true" are restored,
\* the live region exists, the keyup listener is registered or has marked
\* the document, and js-focus-visible is set. (No toggle runs in this
\* specification, so the restored state is still the one of the load.)
C11_OptionalAbsenceSkipsOnlyItsFeature ==
    Loaded =>
        /\ status = "done"
        /\ printAppended = hasHeader
        /\ skipWired = hasSkipLink
        /\ wired = Prefs
        /\ liveRegion /\ liveText = ""
        /\ kbListener \/ "keyboard-navigation" \in rootClasses
        /\ "js-focus-visible" \in rootClasses
        /\ \A p \in Prefs :
              /\ Marker(p) \in rootClasses <=> store[p] = "true"
              /\ pressed[p] = ToString(store[p] = "true")

\* C11: a loaded document that has neither optional element and a stored
\* preference, which was restored.
C11_Witness ==
    /\ Loaded
    /\ ~hasHeader /\ ~hasSkipLink
    /\ ~printAppended /\ ~skipWired
    /\ store["highContrast"] = "true"
    /\ "high-contrast" \in rootClasses
    /\ "js-focus-visible" \in rootClasses

\* C12: every transition of a toggle makes exactly one announcement, kept
\* with the pending ones, and its message names the state entered:
\* 'turned on' when the indicator becomes "true", 'turned off' when it
\* becomes "false". Nothing else announces: a step that adds a pending
\* clear or puts a text in the live region is a toggle, and the load, with
\* its restoration, leaves the channel empty and schedules nothing.
C12_OneAnnouncementPerTransition ==
    [][ /\ \A p \in Prefs : Toggle(p) =>
              LET entered == IF pressed'[p] = "true" THEN MsgOn(p)
                             ELSE MsgOff(p)
              IN  /\ pressed'[p] # pressed[p]
                  /\ pressed'[p] \in {"true", "false"}
                  /\ Len(timers') = Len(timers) + 1
                  /\ SubSeq(timers', 1, Len(timers)) = timers
                  /\ timers'[Len(timers')].msg = entered
                  /\ liveText' = entered
        /\ (Len(timers') > Len(timers) \/ liveText' \notin {"", liveText})
              => \E p \in Prefs : Toggle(p)
        /\ Load => timers' = timers /\ timers = <<>> /\ liveText' = ""
      ]_vars

\* C12: large text has just been turned off while the announcement of
\* another transition is still pending.
C12_Witness ==
    /\ Len(timers) = 2
    /\ Newest.msg = MsgOff("largeText")
    /\ liveText = MsgOff("largeText")
    /\ pressed["largeText"] = "false"
    /\ "large-text" \notin rootClasses

\* C13: the two toggles share no preference state: a toggle of one
\* preference leaves the marker class, the indicator and the stored value
\* of the other preference as they were.
C13_OtherPreferenceUntouched ==
    [][ \A p \in Prefs : Toggle(p) =>
          \A q \in Prefs \ {p} :
              /\ (Marker(q) \in rootClasses') = (Marker(q) \in rootClasses)
              /\ pressed'[q] = pressed[q]
              /\ store'[q] = store[q]
      ]_vars

\* C13: high contrast was the last preference toggled, and large text is
\* still on in its marker, its indicator and the store.
C13_Witness ==
    /\ lastToggles # <<>>
    /\ lastToggles[Len(lastToggles)].pref = "highContrast"
    /\ "large-text" \in rootClasses
    /\ pressed["largeText"] = "true"
    /\ store["largeText"] = "true"
    /\ "high-contrast" \notin rootClasses

\* C14: a click on a control, or a keydown of Enter or Space on it, flips
\* its preference once: the indicator becomes the opposite of what it read,
\* the marker and the stored value follow it, one announcement is made. A
\* keydown of another key on the control changes nothing of the marker
\* classes, the indicators, the store or the announcement channel. And
\* after the load nothing but these events changes the marker, the
\* indicator or the stored value of a preference.
C14_FlipExactlyOnActivation ==
    [][ /\ \A p \in Prefs :
              ( \/ (IF p = "highContrast" THEN toggleHighContrast
                                          ELSE toggleFontSize)
                \/ KeyDown(p, "Enter")
                \/ KeyDown(p, " ") )
              => /\ pressed'[p] = ToString(pressed[p] # "true")
                 /\ Marker(p) \in rootClasses' <=> pressed[p] # "true"
                 /\ store'[p] = pressed'[p]
                 /\ Len(timers') = Len(timers) + 1
        /\ \A p \in Prefs, key \in Keys \ {"Enter", " "} :
              KeyDown(p, key) =>
                  UNCHANGED <<rootClasses, pressed, store, liveText, timers>>
        /\ (Loaded /\ \E p \in Prefs : PrefState(p)' # PrefState(p))
              => \/ Click
                 \/ \E p \in Prefs : KeyDown(p, "Enter") \/ KeyDown(p, " ")
      ]_vars

\* C14: both controls have been activated, each flipped exactly once from
\* unpressed markup, and the two announcements are still pending.
C14_Witness ==
    /\ Len(lastToggles) = 2
    /\ lastToggles[1].pref # lastToggles[2].pref
    /\ \A i \in 1..2 : lastToggles[i].before.ind = "false"
    /\ \A p \in Prefs : pressed[p] = "true" /\ Marker(p) \in rootClasses
    /\ Len(timers) = 2

\* C15: keyboard-mode detection fires once. After the load the keyup
\* listener is registered exactly as long as the document is not marked
\* 'keyboard-navigation'; the step that marks it is a keyup of Tab, and that
\* same step removes the listener, so that no later keyup finds it; a keyup
\* of another key leaves listener and marker as they are; and no step
\* removes the marker once it is set.
C15_KeyboardDetectionOnce ==
    /\ [](Loaded => (kbListener <=> "keyboard-navigation" \notin rootClasses))
    /\ [][ /\ "keyboard-navigation" \in rootClasses
                  => "keyboard-navigation" \in rootClasses'
           /\ ("keyboard-navigation" \notin rootClasses
                   /\ "keyboard-navigation" \in rootClasses')
                  => KeyUp("Tab") /\ kbListener /\ ~kbListener'
           /\ \A key \in Keys \ {"Tab"} : KeyUp(key) =>
                  UNCHANGED <<kbListener, rootClasses>>
         ]_vars

\* C15: the document is marked and the listener is gone, while the media
\* watchers went on working after that.
C15_Witness ==
    /\ Loaded
    /\ "keyboard-navigation" \in rootClasses
    /\ ~kbListener
    /\ reduceEvents > 0

\* C16: from the moment the script has run, data-theme is "dark" or
\* "light", and it is "dark" exactly when (prefers-color-scheme: dark)
\* matches: after the top-level call of line 215, after the load and after
\* every change event of the query.
C16_ThemeFollowsQuery ==
    /\ dataTheme \in {"dark", "light"}
    /\ dataTheme = "dark" <=> darkMatches

\* C16: the query has changed twice, the last time away from dark, and
\* the attribute is back to "light".
C16_Witness ==
    /\ Loaded
    /\ darkEvents = 2
    /\ ~darkMatches
    /\ dataTheme = "light"

\* C17: the store is written by the toggles only. The load, restoration
\* included, leaves both keys as they are, an absent key absent; a toggle
\* writes "true" or "false" under its own key and leaves the other key;
\* every step that changes the store is a toggle; and no step makes a key
\* that is present absent.
C17_StoreWrittenOnlyByToggles ==
    [][ /\ Load => store' = store
        /\ \A p \in Prefs : Toggle(p) =>
              /\ store'[p] \in {"true", "false"}
              /\ \A q \in Prefs \ {p} : store'[q] = store[q]
        /\ store' # store => \E p \in Prefs : Toggle(p)
        /\ \A p \in Prefs : store[p] # Null => store'[p] # Null
      ]_vars

\* C17: both keys were absent at the load; high contrast was toggled on
\* and off again, which created its key and kept it, and the key of large
\* text is still absent.
C17_Witness ==
    /\ Loaded
    /\ Len(lastToggles) = 2
    /\ \A i \in 1..2 : lastToggles[i].pref = "highContrast"
    /\ lastToggles[1].before.stored = Null
    /\ store["highContrast"] = "false"
    /\ store["largeText"] = Null

\* C18: restoration does not guard against a missing control. With a
\* storage that can be read, the load ends in an exception exactly when a
\* preference stored as "true" has no control. When that preference is
\* high contrast, its marker is added and nothing after it is done: large
\* text is not restored, js-focus-visible is not added, the skip link
\* gets no listeners. When it is large text, high contrast was restored
\* before it, the marker of large text is added, and js-focus-visible and
\* the skip link are left out. A missing control whose preference is not
\* stored as "true" does not fail: the load completes, js-focus-visible and
\* the skip link included.
C18_RestoreFailsOnMissingControl ==
    [][ (Load /\ storageMode # "unavailable") =>
          LET hcFails == store["highContrast"] = "true"
                            /\ ~hasBtn["highContrast"]
              ltFails == ~hcFails /\ store["largeText"] = "true"
                            /\ ~hasBtn["largeText"]
          IN  /\ status' = "threw" <=> (hcFails \/ ltFails)
              /\ hcFails =>
                    /\ "high-contrast" \in rootClasses'
                    /\ "large-text" \notin rootClasses'
                    /\ pressed' = pressed
                    /\ "js-focus-visible" \notin rootClasses'
                    /\ ~skipWired'
              /\ ltFails =>
                    /\ "large-text" \in rootClasses'
                    /\ "high-contrast" \in rootClasses'
                          <=> store["highContrast"] = "true"
                    /\ store["highContrast"] = "true"
                          => pressed'["highContrast"] = "true"
                    /\ pressed'["largeText"] = pressed["largeText"]
                    /\ "js-focus-visible" \notin rootClasses'
                    /\ ~skipWired'
              /\ ~(hcFails \/ ltFails) =>
                    /\ status' = "done"
                    /\ "js-focus-visible" \in rootClasses'
                    /\ skipWired' = hasSkipLink
      ]_vars

\* C18: the document has no high-contrast control, both preferences are
\* stored as "true", and the load has failed after adding the marker of
\* high contrast: large text is not restored though its control exists.
C18_Witness ==
    /\ status = "threw"
    /\ storageMode = "ok"
    /\ ~hasBtn["highContrast"] /\ hasBtn["largeText"]
    /\ \A p \in Prefs : store[p] = "true"
    /\ "high-contrast" \in rootClasses
    /\ "large-text" \notin rootClasses
    /\ pressed["largeText"] # "true"
    /\ "js-focus-visible" \notin rootClasses
    /\ hasSkipLink /\ ~skipWired

\* C19: the announcement channel drains. Each pending clear belongs to one
\* announcement whose delay is still running (0 to AnnounceDelay left, the
\* older the less), and a text is in the region only while a clear is
\* pending, so that the region is empty one delay after the last call at
\* the latest. An announcement adds its own clear and keeps the pending
\* ones; a clear leaves the pending ones only by running when it is due,
\* the oldest first, and empties the region; the region, once empty, gets a
\* text again only by a toggle. And, timers running when due: either
\* toggles go on for ever, or the region is empty with no clear pending
\* again and again, which with the above means for good once the calls
\* have stopped.
C19_ChannelDrains ==
    /\ [](/\ \A i \in DOMAIN timers : timers[i].rem \in 0..AnnounceDelay
          /\ \A i, j \in DOMAIN timers : i < j => timers[i].rem <= timers[j].rem
          /\ liveText # "" => timers # <<>>)
    /\ [][ /\ (\E p \in Prefs : Toggle(p)) =>
                  /\ Len(timers') = Len(timers) + 1
                  /\ \A i \in DOMAIN timers : timers'[i] = timers[i]
                  /\ timers'[Len(timers')].rem = AnnounceDelay
           /\ Len(timers') < Len(timers) =>
                  /\ Head(timers).rem = 0
                  /\ timers' = Tail(timers)
                  /\ liveText' = ""
           /\ (liveText = "" /\ liveText' # "") => \E p \in Prefs : Toggle(p)
         ]_vars
    /\ \/ []<>(liveText = "" /\ timers = <<>>)
       \/ []<><<\E p \in Prefs : Toggle(p)>>_vars

\* C19: two announcements are pending, the older one due and the newer
\* one with time left, and the text of the newer one is in the region.
C19_Witness ==
    /\ Len(timers) = 2
    /\ timers[1].rem = 0
    /\ timers[2].rem > 0
    /\ liveText = timers[2].msg

\* C20: a toggle takes its direction from the indicator of its own page
\* and not from the store: in either page the value written is the
\* negation of what the indicator read, whatever the store held, and right
\* after the toggle the marker and the indicator of that page agree with
\* the stored value, while the marker classes and indicators of the other
\* page are not touched. A (re)load of the second page brings its markers
\* and indicators back to the stored values.
C20_DirectionFromIndicator ==
    [][ /\ \A p \in Prefs : Toggle(p) =>
              /\ store'[p] = ToString(pressed[p] # "true")
              /\ pressed'[p] = store'[p]
              /\ Marker(p) \in rootClasses' <=> store'[p] = "true"
              /\ UNCHANGED <<otherClasses, otherPressed>>
        /\ \A p \in Prefs : ToggleOther(p) =>
              /\ store'[p] = ToString(otherPressed[p] # "true")
              /\ otherPressed'[p] = store'[p]
              /\ Marker(p) \in otherClasses' <=> store'[p] = "true"
              /\ UNCHANGED <<rootClasses, pressed>>
        /\ LoadOther =>
              \A p \in Prefs :
                  /\ otherPressed'[p] = ToString(store[p] = "true")
                  /\ Marker(p) \in otherClasses' <=> store[p] = "true"
      ]_vars

\* C20: the first page toggled high contrast twice, the first time from an
\* unpressed indicator while the store, written by the second page, already
\* held "true"; its second toggle wrote "false", and the second page still
\* shows high contrast on: last writer wins, the other page disagrees.
C20_Witness ==
    /\ otherOpen
    /\ Len(lastToggles) = 2
    /\ \A i \in 1..2 : lastToggles[i].pref = "highContrast"
    /\ lastToggles[1].before.ind = "false"
    /\ lastToggles[1].before.stored = "true"
    /\ store["highContrast"] = "false"
    /\ pressed["highContrast"] = "false"
    /\ otherPressed["highContrast"] = "true"
    /\ "high-contrast" \in otherClasses
====
